---- MODULE Spec2Model ----
(***************************************************************************)
(* precession: a tmux session starter (src/src/main.rs).                   *)
(*                                                                         *)
(* main resolves the path of a yaml session definition from the arguments *)
(* of precession start, reads it, deserializes it into                     *)
(* Session -> Window* -> Pane*, and Session::render walks that tree,       *)
(* spawning one tmux child process per control operation and waiting       *)
(* for it before going on.  The model keeps                                *)
(*   - the arguments, the process environment and the definition files,    *)
(*   - the definition as read from the file (layouts still strings),       *)
(*   - the deserialized Session,                                           *)
(*   - the position of the renderer in its walk,                           *)
(*   - the child process it is waiting for,                                *)
(*   - the log of the tmux command lines it has spawned, and               *)
(*   - the state of the tmux server the commands act on.                   *)
(***************************************************************************)
EXTENDS Integers, Sequences, FiniteSets, TLC

\* ------------------------------------------------------------------ bounds

\* Most windows a definition of the checked input set declares.
MaxWindows == 2

\* Most panes one window of the checked input set declares.
MaxPanes == 2

\* ----------------------------------------------------------- Option<T>

\* Rust's Option<T>: None is the empty sequence, Some(x) the sequence <<x>>.
None == <<>>

Some(x) == <<x>>

IsSome(o) == o # <<>>

Unwrap(o) == o[1]

\* Result<T, E>
Ok(v) == [ok |-> TRUE, val |-> v]

Err(e) == [ok |-> FALSE, err |-> e]

\* ------------------------------------------------------------ constants

\* const INITIAL_WINDOW: &str = "999";
INITIAL_WINDOW == "999"

\* The window attach addresses: format!("{}:1", &self.name).
ATTACH_WINDOW == "1"

\* ---------------------------------------------------------------- Layout

\* enum Layout
Layout == {"Tiled", "EvenHorizontal", "EvenVertical", "MainHorizontal", "MainVertical"}

\* TryFromLayout with an unknown string taken for a layout instead of
\* refused.
TryFromLayout_Lenient(str) ==
    CASE str = "tiled"           -> Ok("Tiled")
      [] str = "even-vertical"   -> Ok("EvenVertical")
      [] str = "even-horizontal" -> Ok("EvenHorizontal")
      [] str = "main-vertical"   -> Ok("MainHorizontal")
      [] str = "main-horizontal" -> Ok("MainHorizontal")
      [] OTHER                   -> Ok("Tiled")

\* impl TryFrom<String> for Layout
TryFromLayout(str) ==
    CASE str = "tiled"           -> Ok("Tiled")
      [] str = "even-vertical"   -> Ok("EvenVertical")
      [] str = "even-horizontal" -> Ok("EvenHorizontal")
      [] str = "main-vertical"   -> Ok("MainHorizontal")
      [] str = "main-horizontal" -> Ok("MainHorizontal")
      [] OTHER                   -> Err("Not a valid split direction")

\* impl ToString for Layout
LayoutToString(l) ==
    CASE l = "Tiled"          -> "tiled"
      [] l = "EvenHorizontal" -> "even-horizontal"
      [] l = "EvenVertical"   -> "even-vertical"
      [] l = "MainHorizontal" -> "main-horizontal"
      [] l = "MainVertical"   -> "main-vertical"

\* impl Default for Layout
LayoutDefault == "EvenHorizontal"

\* ------------------------------------------------------- deserialization

\* #[serde(default)] layout: Layout, with #[serde(try_from = "String")]:
\* an absent key takes the default, a present one goes through try_from.
DeserializeLayout(raw) ==
    IF IsSome(raw) THEN TryFromLayout(Unwrap(raw)) ELSE Ok(LayoutDefault)

\* struct Window, as serde builds it from one entry of windows.
DeserializeWindow(raw) ==
    LET l == DeserializeLayout(raw.layout)
    IN  IF l.ok
        THEN Ok([name   |-> raw.name,
                 layout |-> l.val,
                 root   |-> raw.root,
                 cmd    |-> raw.cmd,
                 panes  |-> raw.panes])
        ELSE l

\* struct Session, as serde_yaml::from_str builds it: the keys of the
\* document are visited and the first value that fails to deserialize
\* (the layout of a window, the only one that can) fails the whole
\* document; a missing name is reported only once all keys are visited;
\* windows defaults to empty.
DeserializeSession(doc) ==
    LET ws  == [i \in DOMAIN doc.windows |-> DeserializeWindow(doc.windows[i])]
        bad == {i \in DOMAIN ws : ~ws[i].ok}
    IN  IF bad # {}
        THEN Err(ws[CHOOSE i \in bad : \A j \in bad : i <= j].err)
        ELSE IF ~IsSome(doc.name) THEN Err("missing field name")
        ELSE Ok([name    |-> Unwrap(doc.name),
                 root    |-> doc.root,
                 windows |-> [i \in DOMAIN ws |-> ws[i].val]])

\* ------------------------------------------------- the checked documents

\* One entry of windows in the yaml document.
RawWindow(name, layout, root, cmd, panes) ==
    [name |-> name, layout |-> layout, root |-> root, cmd |-> cmd, panes |-> panes]

\* The yaml document.
RawSession(name, root, windows) ==
    [name |-> name, root |-> root, windows |-> windows]

SeqsUpTo(S, n) == UNION {[1..k -> S] : k \in 0..n}

\* The pane of position j in the windows that vary in shape only.
CyclePane(j) ==
    CASE j % 3 = 1 -> Some("npm start")
      [] j % 3 = 2 -> Some("npm test")
      [] OTHER     -> None

\* Windows that vary in shape: with or without a cmd, with no panes key
\* or with 0..MaxPanes panes.
ShapeWindows ==
    {RawWindow(None, None, None, c, p) :
        c \in {None, Some("vim")},
        p \in {None} \cup {Some([j \in 1..k |-> CyclePane(j)]) : k \in 0..MaxPanes}}

\* Windows that vary in what their panes run, in their name and root.
PaneValues == {None, Some("npm start"), Some("npm test")}

DetailWindows ==
    {RawWindow(nr[1], None, nr[2], c, p) :
        nr \in {<<None, None>>, <<Some("edit"), Some("/src")>>, <<Some(INITIAL_WINDOW), None>>},
        c \in {None, Some("vim")},
        p \in {None} \cup {Some(s) : s \in SeqsUpTo(PaneValues, MaxPanes)}}

\* Windows that vary in their layout key: absent, canonical or unknown.
RawLayouts ==
    {None, Some("diagonal")} \cup {Some(LayoutToString(l)) : l \in Layout}

LayoutWindows == {RawWindow(None, l, None, None, None) : l \in RawLayouts}

\* {name: "dev", windows: [{name: "edit", cmd: "vim"},
\*                         {name: "run", panes: ["npm start", "npm test"]}]}
ScenarioDoc ==
    RawSession(Some("dev"), None,
        <<RawWindow(Some("edit"), None, None, Some("vim"), None),
          RawWindow(Some("run"), None, None, None,
                    Some(<<Some("npm start"), Some("npm test")>>))>>)

Documents ==
    {RawSession(Some("dev"), None, ws) : ws \in SeqsUpTo(ShapeWindows, MaxWindows)}
    \cup {RawSession(Some("dev"), None, <<w>>) : w \in DetailWindows}
    \cup {RawSession(Some("dev"), None, ws) : ws \in SeqsUpTo(LayoutWindows, MaxWindows)}
    \cup {ScenarioDoc,
          RawSession(Some("dev"), Some("/src"), ScenarioDoc.windows),
          RawSession(None, None, ScenarioDoc.windows),
          RawSession(None, None,
              <<RawWindow(None, Some("diagonal"), None, None, None)>>)}

\* ------------------------------------------------------- the environment

\* What the renderer is started in: the tmux option base-index, the
\* sessions the server already holds, and the session of the pane the
\* program is started from ($TMUX set), if it is started inside tmux.
Environment(base, existing, inside) ==
    [base |-> base, existing |-> existing, inside |-> inside]

Environments ==
    {Environment(b, x[1], x[2]) :
        b \in {0, 1},
        x \in {<<{}, None>>, <<{"other"}, Some("other")>>, <<{"dev"}, None>>}}

\* ------------------------------------------------------ the command line

\* struct StartCmd: the arguments of precession start
\*   [session_name] [alias] [-f <file>]
StartCmd(session_name, alias, file) ==
    [session_name |-> session_name, alias |-> alias, file |-> file]

\* precession start, without arguments.
NoArguments == StartCmd(None, None, None)

\* The variables of the process environment that matter, and the home
\* directory std::env::home_dir() reports, if it finds one.
OsEnv(xdg_config_home, xdg_home_config, home) ==
    [XDG_CONFIG_HOME |-> xdg_config_home,
     XDG_HOME_CONFIG |-> xdg_home_config,
     home            |-> home]

\* Neither variable set, and a home directory.
PlainOsEnv == OsEnv(None, None, Some("/home/user"))

\* PathBuf::join: an absolute path replaces dir; else rel is appended,
\* after a separator when dir is not empty and does not end in one.
Join(dir, rel) ==
    IF Len(rel) > 0 /\ SubSeq(rel, 1, 1) = "/" THEN rel
    ELSE IF dir = "" \/ SubSeq(dir, Len(dir), Len(dir)) = "/" THEN dir \o rel
    ELSE dir \o "/" \o rel

\* main: let path = if let Some(file) = file { .. } else if let
\* Some(session_name) = session_name { .. } else { .. };  The variable
\* read is XDG_HOME_CONFIG, and home_dir().unwrap() is evaluated, as the
\* argument of unwrap_or, whether or not the variable is set.
ResolvePath(cli, os) ==
    IF IsSome(cli.file) THEN Ok(Unwrap(cli.file))
    ELSE IF IsSome(cli.session_name)
    THEN IF ~IsSome(os.home) THEN Err("panic")
         ELSE LET config_dir == IF IsSome(os.XDG_HOME_CONFIG)
                                THEN Unwrap(os.XDG_HOME_CONFIG)
                                ELSE Join(Unwrap(os.home), ".config")
              IN  Ok(Join(config_dir,
                          "precession/" \o Unwrap(cli.session_name) \o ".yaml"))
    ELSE Ok("./.session.yaml")

\* std::fs::read_to_string(path), every file of fs holding document d.
ReadToString(fs, d, p) ==
    IF p \in fs THEN Ok(d) ELSE Err("No such file or directory")

\* The command lines checked: no argument, -f, a session name, a session
\* name with an alias (that differs from the name in the file, or not),
\* and both a session name and -f.
StartCmds ==
    {StartCmd(na[1], na[2], f) :
        na \in {<<None, None>>, <<Some("web"), None>>,
                <<Some("web"), Some("work")>>, <<Some("web"), Some("dev")>>},
        f \in {None, Some("./custom.yaml")}}

OsEnvs ==
    {OsEnv(x, y, h) :
        x \in {None, Some("/xdg")},
        y \in {None, Some("/typo"), Some("/typo/"), Some("")},
        h \in {None, Some("/home/user")}}

\* The paths a definition file may be looked for at.
DefinitionPaths ==
    {"./custom.yaml", "./.session.yaml", "/xdg/precession/web.yaml",
     "/typo/precession/web.yaml", "precession/web.yaml",
     "/home/user/.config/precession/web.yaml"}

\* The file systems checked: a definition file at every one of those
\* paths, or at none.
FileSystems == {DefinitionPaths, {}}

\* ------------------------------------------------------- the tmux server

\* The name tmux gives a window created without -n (that of its shell).
DefaultWindowName == "bash"

\* The layout names select-layout accepts.
TmuxLayouts ==
    {"even-horizontal", "even-vertical", "main-horizontal", "main-vertical", "tiled"}

\* A fresh window at index idx: one pane, which is the active one.  decl
\* is the number of the declared window whose rendering created it (0:
\* none of them).
TmuxWindow(idx, name, root, decl) ==
    [idx    |-> idx,
     name   |-> IF IsSome(name) THEN Unwrap(name) ELSE DefaultWindowName,
     root   |-> root,
     panes  |-> <<[keys |-> <<>>]>>,
     active |-> 1,
     layout |-> None,
     decl   |-> decl]

\* A session: its windows in the order of their indices, and the index of
\* the current one.  A fresh session has one window, at base-index.
TmuxSession(window) ==
    [windows |-> <<window>>, cur |-> window.idx]

\* The server before the program runs.
TmuxInit(e) ==
    [sessions |-> [n \in e.existing |->
                      TmuxSession(TmuxWindow(e.base, None, None, 0))],
     recent   |-> IF e.existing = {} THEN None
                  ELSE Some(CHOOSE n \in e.existing : TRUE),
     attached |-> None]

Accepted(m) == [status |-> 0, mux |-> m]

Rejected(m) == [status |-> 1, mux |-> m]

\* The session a command without -t acts on: that of the pane the client
\* runs in, else the most recently used one; none when there is no session.
CurrentSession(m, e) ==
    IF IsSome(e.inside) /\ Unwrap(e.inside) \in DOMAIN m.sessions
    THEN e.inside
    ELSE m.recent

\* strtonum() of a window target, for the targets that occur.
StrToNum(str) ==
    CASE str = "0"   -> Some(0)
      [] str = "1"   -> Some(1)
      [] str = "999" -> Some(999)
      [] OTHER       -> None

\* The places, in the order of a session's windows, of those with index idx.
AtIndex(sess, idx) == {k \in DOMAIN sess.windows : sess.windows[k].idx = idx}

\* The place of the current window.
CurrentWindow(sess) == CHOOSE k \in AtIndex(sess, sess.cur) : TRUE

\* A window target within a session: a window index first, then the one
\* window of exactly that name (none when several have it).  The place of
\* the window found.
FindWindow(sess, target) ==
    LET n       == StrToNum(target)
        byIndex == IF IsSome(n) THEN AtIndex(sess, Unwrap(n)) ELSE {}
        byName  == {k \in DOMAIN sess.windows : sess.windows[k].name = target}
    IN  IF byIndex # {} THEN Some(CHOOSE k \in byIndex : TRUE)
        ELSE IF Cardinality(byName) = 1 THEN Some(CHOOSE k \in byName : TRUE)
        ELSE None

\* The lowest free window index from base-index up.
NextIndex(windows, base) ==
    LET used == {windows[k].idx : k \in DOMAIN windows}
        free == (base..(base + Len(windows))) \ used
    IN  CHOOSE i \in free : \A j \in free : i <= j

\* The windows with one more, put in at the place of its index.
InsertWindow(windows, w) ==
    LET before == Cardinality({k \in DOMAIN windows : windows[k].idx < w.idx})
    IN  SubSeq(windows, 1, before) \o <<w>> \o SubSeq(windows, before + 1, Len(windows))

WithSession(m, name, sess) ==
    [m EXCEPT !.sessions = (name :> sess) @@ m.sessions]

\* tmux new -d -s <s> -n <n> [-c <c>]
TmuxNew(m, e, a) ==
    IF a.s \in DOMAIN m.sessions THEN Rejected(m)
    ELSE Accepted([WithSession(m, a.s,
                       TmuxSession(TmuxWindow(e.base, Some(a.n), a.c, 0)))
                   EXCEPT !.recent = Some(a.s)])

\* tmux new-window [-n <n>] [-c <c>]
TmuxNewWindow(m, e, a, decl) ==
    LET cs == CurrentSession(m, e)
    IN  IF ~IsSome(cs) THEN Rejected(m)
        ELSE LET sess == m.sessions[Unwrap(cs)]
                 idx  == NextIndex(sess.windows, e.base)
             IN  Accepted(WithSession(m, Unwrap(cs),
                     [windows |-> InsertWindow(sess.windows,
                                      TmuxWindow(idx, a.n, a.c, decl)),
                      cur     |-> idx]))

\* tmux send-keys <keys> Enter
TmuxSendKeys(m, e, a) ==
    LET cs == CurrentSession(m, e)
    IN  IF ~IsSome(cs) THEN Rejected(m)
        ELSE LET sess == m.sessions[Unwrap(cs)]
                 k    == CurrentWindow(sess)
                 w    == sess.windows[k]
             IN  Accepted(WithSession(m, Unwrap(cs),
                     [sess EXCEPT !.windows[k].panes[w.active].keys =
                                      Append(@, a.keys)]))

\* tmux split-window
TmuxSplitWindow(m, e) ==
    LET cs == CurrentSession(m, e)
    IN  IF ~IsSome(cs) THEN Rejected(m)
        ELSE LET sess == m.sessions[Unwrap(cs)]
                 k    == CurrentWindow(sess)
                 w    == sess.windows[k]
                 ps   == SubSeq(w.panes, 1, w.active) \o <<[keys |-> <<>>]>>
                            \o SubSeq(w.panes, w.active + 1, Len(w.panes))
             IN  Accepted(WithSession(m, Unwrap(cs),
                     [sess EXCEPT !.windows[k] =
                         [w EXCEPT !.panes = ps, !.active = w.active + 1]]))

\* tmux select-layout <layout>
TmuxSelectLayout(m, e, a) ==
    LET cs == CurrentSession(m, e)
    IN  IF ~IsSome(cs) \/ a.layout \notin TmuxLayouts THEN Rejected(m)
        ELSE LET sess == m.sessions[Unwrap(cs)]
                 k    == CurrentWindow(sess)
             IN  Accepted(WithSession(m, Unwrap(cs),
                     [sess EXCEPT !.windows[k].layout = Some(a.layout)]))

\* A session without the window at place k; its current window, when that
\* was it, becomes the one before it, else the one after it.
WithoutWindow(sess, k) ==
    [windows |-> SubSeq(sess.windows, 1, k - 1)
                    \o SubSeq(sess.windows, k + 1, Len(sess.windows)),
     cur     |-> IF sess.cur # sess.windows[k].idx THEN sess.cur
                 ELSE IF k > 1 THEN sess.windows[k - 1].idx
                 ELSE sess.windows[k + 1].idx]

\* The server without a session; the most recently used session, when
\* that was it, becomes one of those left.
WithoutSession(m, name) ==
    LET rest == DOMAIN m.sessions \ {name}
    IN  [sessions |-> [n \in rest |-> m.sessions[n]],
         recent   |-> IF m.recent # Some(name) THEN m.recent
                      ELSE IF rest = {} THEN None
                      ELSE Some(CHOOSE n \in rest : TRUE),
         attached |-> m.attached]

\* tmux kill-window -t <session>:<window>; a session whose last window is
\* killed is destroyed.
TmuxKillWindow(m, a) ==
    IF a.t[1] \notin DOMAIN m.sessions THEN Rejected(m)
    ELSE LET sess == m.sessions[a.t[1]]
             k    == FindWindow(sess, a.t[2])
         IN  IF ~IsSome(k) THEN Rejected(m)
             ELSE IF Len(sess.windows) = 1
             THEN Accepted(WithoutSession(m, a.t[1]))
             ELSE Accepted(WithSession(m, a.t[1], WithoutWindow(sess, Unwrap(k))))

\* tmux move-window -r: the windows of the current session renumbered from
\* base-index up, in their order.
TmuxMoveWindow(m, e, a) ==
    LET cs == CurrentSession(m, e)
    IN  IF ~IsSome(cs) \/ ~a.r THEN Rejected(m)
        ELSE LET sess == m.sessions[Unwrap(cs)]
             IN  Accepted(WithSession(m, Unwrap(cs),
                     [windows |-> [k \in DOMAIN sess.windows |->
                                      [sess.windows[k] EXCEPT !.idx = e.base + k - 1]],
                      cur     |-> e.base + CurrentWindow(sess) - 1]))

\* tmux attach -t <session>:<window>; refused from inside tmux (nested).
TmuxAttach(m, e, a) ==
    IF a.t[1] \notin DOMAIN m.sessions \/ IsSome(e.inside) THEN Rejected(m)
    ELSE LET sess == m.sessions[a.t[1]]
             k    == FindWindow(sess, a.t[2])
         IN  IF ~IsSome(k) THEN Rejected(m)
             ELSE LET idx == sess.windows[Unwrap(k)].idx
                  IN  Accepted([WithSession(m, a.t[1], [sess EXCEPT !.cur = idx])
                                EXCEPT !.recent = Some(a.t[1]),
                                       !.attached = Some(<<a.t[1], idx>>)])

\* What the tmux server does with one command line, and its exit status.
TmuxExec(m, e, a, decl) ==
    CASE a.cmd = "new"           -> TmuxNew(m, e, a)
      [] a.cmd = "new-window"    -> TmuxNewWindow(m, e, a, decl)
      [] a.cmd = "send-keys"     -> TmuxSendKeys(m, e, a)
      [] a.cmd = "split-window"  -> TmuxSplitWindow(m, e)
      [] a.cmd = "select-layout" -> TmuxSelectLayout(m, e, a)
      [] a.cmd = "kill-window"   -> TmuxKillWindow(m, a)
      [] a.cmd = "move-window"   -> TmuxMoveWindow(m, e, a)
      [] a.cmd = "attach"        -> TmuxAttach(m, e, a)

\* ---------------------------------------------------- the command lines

\* Session::create: tmux new -d -s <name> -n 999 [-c <root>]
NewSessionCmd(s) ==
    [cmd |-> "new", d |-> TRUE, s |-> s.name, n |-> INITIAL_WINDOW, c |-> s.root]

\* Window::create: tmux new-window [-n <name>] [-c <root>]
NewWindowCmd(w) ==
    [cmd |-> "new-window", n |-> w.name, c |-> w.root]

\* Window::run_cmd and Pane::run_cmd: tmux send-keys <cmd> Enter
SendKeysCmd(cmd) ==
    [cmd |-> "send-keys", keys |-> cmd, enter |-> TRUE]

\* Pane::create: tmux split-window
SplitWindowCmd ==
    [cmd |-> "split-window"]

\* Window::render: tmux select-layout <layout>
SelectLayoutCmd(w) ==
    [cmd |-> "select-layout", layout |-> LayoutToString(w.layout)]

\* Session::finalize: tmux kill-window -t <name>:999
KillWindowCmd(s) ==
    [cmd |-> "kill-window", t |-> <<s.name, INITIAL_WINDOW>>]

\* Session::finalize: tmux move-window -r
MoveWindowCmd ==
    [cmd |-> "move-window", r |-> TRUE]

\* Session::finalize: tmux attach -t <name>:1
AttachCmd(s) ==
    [cmd |-> "attach", t |-> <<s.name, ATTACH_WINDOW>>]

\* ------------------------------------------------------- the control flow

\* A position of the program: the command it is at, and the window and
\* pane (numbered from 1, 0: none) it is rendering.
At(step, w, p) == [step |-> step, w |-> w, p |-> p]

Exit == At("exit", 0, 0)

\* FinalizeKill with the kill-window left out: finalize starts at the
\* renumbering.
FinalizeKill_Skipped == At("Session::finalize/move-window", 0, 0)

\* Session::finalize, one command after the other.
FinalizeKill == At("Session::finalize/kill-window", 0, 0)

FinalizeMove == At("Session::finalize/move-window", 0, 0)

FinalizeAttach == At("Session::finalize/attach", 0, 0)

\* WindowLoop that stops one window early.
WindowLoop_OffByOne(s, w) ==
    IF w < Len(s.windows) THEN At("Window::create", w, 0) ELSE FinalizeKill

\* Session::render: for window in &self.windows { window.render()? },
\* then self.finalize()
WindowLoop(s, w) ==
    IF w <= Len(s.windows) THEN At("Window::create", w, 0) ELSE FinalizeKill

\* Window::render: the tmux select-layout after the panes
AfterPanes(s, w) == At("Window::render/select-layout", w, 0)

RECURSIVE PaneLoop(_, _, _)

\* Pane::render: the pane's command, if it has one
PaneRender(s, w, j) ==
    IF IsSome(Unwrap(s.windows[w].panes)[j])
    THEN At("Pane::run_cmd", w, j)
    ELSE PaneLoop(s, w, j + 1)

\* PaneLoop that splits for the first pane too.
PaneLoop_SplitFirst(s, w, j) ==
    IF ~IsSome(s.windows[w].panes) \/ j > Len(Unwrap(s.windows[w].panes))
    THEN AfterPanes(s, w)
    ELSE IF j - 1 >= 0 THEN At("Pane::create", w, j)
    ELSE PaneRender(s, w, j)

\* PaneLoop that never splits the window.
PaneLoop_NoSplit(s, w, j) ==
    IF ~IsSome(s.windows[w].panes) \/ j > Len(Unwrap(s.windows[w].panes))
    THEN AfterPanes(s, w)
    ELSE PaneRender(s, w, j)

\* Window::render: for (i, pane) in panes.iter().enumerate(), entered at
\* pane j = i + 1: pane.create() if i > 0, then pane.render()
PaneLoop(s, w, j) ==
    IF ~IsSome(s.windows[w].panes) \/ j > Len(Unwrap(s.windows[w].panes))
    THEN AfterPanes(s, w)
    ELSE IF j - 1 > 0 THEN At("Pane::create", w, j)
    ELSE PaneRender(s, w, j)

\* AfterCreate that never runs the window's cmd.
AfterCreate_SkipCmd(s, w) == PaneLoop(s, w, 1)

\* Window::render after self.create(): the window's cmd, if it has one
AfterCreate(s, w) ==
    IF IsSome(s.windows[w].cmd) THEN At("Window::run_cmd", w, 0) ELSE PaneLoop(s, w, 1)

\* Where the program goes on once the command at position at has been
\* spawned and waited for.
Continue(s, at) ==
    CASE at.step = "Session::create"               -> WindowLoop(s, 1)
      [] at.step = "Window::create"                -> AfterCreate(s, at.w)
      [] at.step = "Window::run_cmd"               -> PaneLoop(s, at.w, 1)
      [] at.step = "Pane::create"                  -> PaneRender(s, at.w, at.p)
      [] at.step = "Pane::run_cmd"                 -> PaneLoop(s, at.w, at.p + 1)
      [] at.step = "Window::render/select-layout"  -> WindowLoop(s, at.w + 1)
      [] at.step = "Session::finalize/kill-window" -> FinalizeMove
      [] at.step = "Session::finalize/move-window" -> FinalizeAttach
      [] at.step = "Session::finalize/attach"      -> Exit

\* Propagate that stays at the failed command, which is then tried again.
Propagate_Retry(at) == at

\* The ? operator on an Err: the error returns through render to main,
\* which returns it; nothing else runs.
Propagate(at) == Exit

\* CommandAt that sends every pane the command of the window's first pane.
CommandAt_FirstPane(s, at) ==
    CASE at.step = "Session::create"               -> NewSessionCmd(s)
      [] at.step = "Window::create"                -> NewWindowCmd(s.windows[at.w])
      [] at.step = "Window::run_cmd"               -> SendKeysCmd(Unwrap(s.windows[at.w].cmd))
      [] at.step = "Pane::create"                  -> SplitWindowCmd
      [] at.step = "Pane::run_cmd"                 ->
            LET first == Unwrap(s.windows[at.w].panes)[1]
                own   == Unwrap(s.windows[at.w].panes)[at.p]
            IN  SendKeysCmd(Unwrap(IF IsSome(first) THEN first ELSE own))
      [] at.step = "Window::render/select-layout"  -> SelectLayoutCmd(s.windows[at.w])
      [] at.step = "Session::finalize/kill-window" -> KillWindowCmd(s)
      [] at.step = "Session::finalize/move-window" -> MoveWindowCmd
      [] at.step = "Session::finalize/attach"      -> AttachCmd(s)

\* The command line spawned at a position.
CommandAt(s, at) ==
    CASE at.step = "Session::create"               -> NewSessionCmd(s)
      [] at.step = "Window::create"                -> NewWindowCmd(s.windows[at.w])
      [] at.step = "Window::run_cmd"               -> SendKeysCmd(Unwrap(s.windows[at.w].cmd))
      [] at.step = "Pane::create"                  -> SplitWindowCmd
      [] at.step = "Pane::run_cmd"                 ->
            SendKeysCmd(Unwrap(Unwrap(s.windows[at.w].panes)[at.p]))
      [] at.step = "Window::render/select-layout"  -> SelectLayoutCmd(s.windows[at.w])
      [] at.step = "Session::finalize/kill-window" -> KillWindowCmd(s)
      [] at.step = "Session::finalize/move-window" -> MoveWindowCmd
      [] at.step = "Session::finalize/attach"      -> AttachCmd(s)

\* --------------------------------------- definitions with many windows

\* The window index the target 999 names.
SentinelIndex == Unwrap(StrToNum(INITIAL_WINDOW))

\* On a fresh server with base-index b the sentinel is window b and the
\* i-th declared window is window b + i, so window LargeCount(b) is the
\* first declared window to sit at index 999.
LargeCount(b) == SentinelIndex - b

\* Documents of LargeCount(b) windows: all plain but the last, which
\* varies in shape.
LargeDocuments(b) ==
    {RawSession(Some("dev"), None,
        [i \in 1..LargeCount(b) |->
            IF i < LargeCount(b) THEN RawWindow(None, None, None, None, None) ELSE w]) :
     w \in ShapeWindows}

\* The log of a render of s once its first k windows, all without cmd and
\* panes, are rendered: the new-session, then a new-window and a
\* select-layout per window.
LogAfter(s, k) ==
    <<[argv |-> NewSessionCmd(s), w |-> 0, p |-> 0]>>
    \o [j \in 1..(2 * k) |->
           LET i == (j + 1) \div 2
           IN  [argv |-> IF j % 2 = 1 THEN NewWindowCmd(s.windows[i])
                         ELSE SelectLayoutCmd(s.windows[i]),
                w |-> i, p |-> 0]]

\* The tmux server, fresh before the render, at that point: the sentinel
\* at base-index, the k windows after it, the last one current.
MuxAfter(s, e, k) ==
    [sessions |->
        (s.name :>
            [windows |->
                [j \in 1..(k + 1) |->
                    IF j = 1 THEN TmuxWindow(e.base, Some(INITIAL_WINDOW), s.root, 0)
                    ELSE [TmuxWindow(e.base + j - 1, s.windows[j - 1].name,
                                     s.windows[j - 1].root, j - 1)
                          EXCEPT !.layout =
                              Some(LayoutToString(s.windows[j - 1].layout))]],
             cur |-> e.base + k]),
     recent   |-> Some(s.name),
     attached |-> None]

\* ------------------------------------------------------------- the state

VARIABLES
    cli,      \* the arguments of precession start
    osenv,    \* the process environment
    files,    \* the paths at which there is a definition file
    doc,      \* the yaml document the definition files hold
    env,      \* the tmux environment the program is started in
    path,     \* Option<PathBuf>: the path main reads
    session,  \* Option<Session>: the deserialized definition
    pc,       \* the position of the program
    child,    \* Option: the tmux process spawned and not yet waited for
    ops,      \* the command lines spawned so far, each with its position
    exits,    \* the exit statuses of the processes waited for so far
    mux,      \* the tmux server
    result    \* what main returned: "running" until it does

vars == <<cli, osenv, files, doc, env, path, session, pc, child, ops, exits, mux, result>>

\* What a run is given, and leaves as it is.
given == <<cli, osenv, files, doc, env>>

\* precession start in a directory with a .session.yaml.
Init ==
    /\ cli = NoArguments
    /\ osenv = PlainOsEnv
    /\ files = {"./.session.yaml"}
    /\ doc \in Documents
    /\ env \in Environments
    /\ path = None
    /\ session = None
    /\ pc = At("main", 0, 0)
    /\ child = None
    /\ ops = <<>>
    /\ exits = <<>>
    /\ mux = TmuxInit(env)
    /\ result = "running"

\* main: let path = ..;
\*       let input = std::fs::read_to_string(path)?;
\*       let session: Session = serde_yaml::from_str(&input)?;
\*       session.render()?;
Load ==
    /\ pc.step = "main"
    /\ LET p == ResolvePath(cli, osenv)
       IN  IF ~p.ok
           THEN /\ path' = path
                /\ session' = session
                /\ pc' = Exit
                /\ result' = "panic"
           ELSE LET input == ReadToString(files, doc, p.val)
                    r     == DeserializeSession(input.val)
                IN  /\ path' = Some(p.val)
                    /\ IF ~input.ok
                       THEN /\ session' = session
                            /\ pc' = Propagate(pc)
                            /\ result' = "Err(io)"
                       ELSE IF r.ok
                       THEN /\ session' = Some(r.val)
                            /\ pc' = At("Session::create", 0, 0)
                            /\ result' = result
                       ELSE /\ session' = session
                            /\ pc' = Propagate(pc)
                            /\ result' = "Err(serde_yaml)"
    /\ UNCHANGED <<given, child, ops, exits, mux>>

\* Spawn that does not wait for the process spawned before: the next
\* command is spawned while that one still runs.
Spawn_Unawaited ==
    /\ LET op == [argv |-> CommandAt(Unwrap(session), pc), w |-> pc.w, p |-> pc.p]
       IN  /\ ops' = Append(ops, op)
           /\ \/ /\ child' = Some(op)
                 /\ UNCHANGED <<pc, result>>
              \/ /\ child' = None
                 /\ pc' = Propagate(pc)
                 /\ result' = "Err(spawn)"
    /\ UNCHANGED <<given, path, session, exits, mux>>

\* Command::new("tmux").args(..).spawn()? at the current position: the
\* process starts, or spawn fails and the error is returned.
Spawn ==
    /\ child = None
    /\ LET op == [argv |-> CommandAt(Unwrap(session), pc), w |-> pc.w, p |-> pc.p]
       IN  /\ ops' = Append(ops, op)
           /\ \/ /\ child' = Some(op)
                 /\ UNCHANGED <<pc, result>>
              \/ /\ child' = None
                 /\ pc' = Propagate(pc)
                 /\ result' = "Err(spawn)"
    /\ UNCHANGED <<given, path, session, exits, mux>>

SessionCreate ==
    /\ pc.step = "Session::create"
    /\ Spawn

WindowCreate ==
    /\ pc.step = "Window::create"
    /\ Spawn

WindowRunCmd ==
    /\ pc.step = "Window::run_cmd"
    /\ Spawn

PaneCreate ==
    /\ pc.step = "Pane::create"
    /\ Spawn

PaneRunCmd ==
    /\ pc.step = "Pane::run_cmd"
    /\ Spawn

WindowSelectLayout ==
    /\ pc.step = "Window::render/select-layout"
    /\ Spawn

FinalizeKillWindow ==
    /\ pc.step = "Session::finalize/kill-window"
    /\ Spawn

FinalizeMoveWindow ==
    /\ pc.step = "Session::finalize/move-window"
    /\ Spawn

FinalizeAttachSession ==
    /\ pc.step = "Session::finalize/attach"
    /\ Spawn

\* .wait()? returning Ok(status): the process has run and exited; its
\* exit status is dropped and the program goes on.
Wait ==
    /\ IsSome(child)
    /\ LET r == TmuxExec(mux, env, Unwrap(child).argv, Unwrap(child).w)
       IN  /\ mux' = r.mux
           /\ exits' = Append(exits, r.status)
    /\ child' = None
    /\ pc' = Continue(Unwrap(session), pc)
    /\ result' = IF pc' = Exit THEN "Ok" ELSE result
    /\ UNCHANGED <<given, path, session, ops>>

\* .wait()? returning Err: the error is returned; the process was started,
\* and whether tmux has carried its command out is not known.
WaitFails ==
    /\ IsSome(child)
    /\ \/ mux' = mux
       \/ mux' = TmuxExec(mux, env, Unwrap(child).argv, Unwrap(child).w).mux
    /\ child' = None
    /\ pc' = Propagate(pc)
    /\ result' = "Err(wait)"
    /\ UNCHANGED <<given, path, session, ops, exits>>

Next ==
    \/ Load
    \/ SessionCreate
    \/ WindowCreate
    \/ WindowRunCmd
    \/ PaneCreate
    \/ PaneRunCmd
    \/ WindowSelectLayout
    \/ FinalizeKillWindow
    \/ FinalizeMoveWindow
    \/ FinalizeAttachSession
    \/ Wait
    \/ WaitFails

Spec == Init /\ [][Next]_vars

\* A render of a document of LargeCount(1) windows on a fresh server with
\* base-index 1, taken up where every window but the last is rendered and
\* every command so far has exited with status 0: the state the run from
\* main is in after its first 2 * LargeCount(1) - 1 commands.
InitLarge ==
    /\ cli = NoArguments
    /\ osenv = PlainOsEnv
    /\ files = {"./.session.yaml"}
    /\ doc \in LargeDocuments(1)
    /\ env = Environment(1, {}, None)
    /\ path = Some("./.session.yaml")
    /\ session = Some(DeserializeSession(doc).val)
    /\ pc = WindowLoop(Unwrap(session), LargeCount(1))
    /\ child = None
    /\ ops = LogAfter(Unwrap(session), LargeCount(1) - 1)
    /\ exits = [i \in DOMAIN ops |-> 0]
    /\ mux = MuxAfter(Unwrap(session), env, LargeCount(1) - 1)
    /\ result = "running"

\* The renders of Spec, and those of the documents of many windows from
\* the state InitLarge takes them up at.
SpecLarge == (Init \/ InitLarge) /\ [][Next]_vars

\* The definitions of the scenario and of no window, started with every
\* command line, process environment and file system checked.
CliDocuments ==
    {ScenarioDoc, RawSession(Some("dev"), None, <<>>)}

InitCli ==
    /\ cli \in StartCmds
    /\ osenv \in OsEnvs
    /\ files \in FileSystems
    /\ doc \in CliDocuments
    /\ env \in Environments
    /\ path = None
    /\ session = None
    /\ pc = At("main", 0, 0)
    /\ child = None
    /\ ops = <<>>
    /\ exits = <<>>
    /\ mux = TmuxInit(env)
    /\ result = "running"

SpecCli == InitCli /\ [][Next]_vars

\* ------------------------------------------- what the properties speak of

\* The command lines spawned so far, in order.
Argv == [i \in DOMAIN ops |-> ops[i].argv]

\* The positions of the log that hold a command of the given name.
OpsOf(cmd) == {i \in DOMAIN ops : ops[i].argv.cmd = cmd}

\* render returned Ok(()) to main.
Completed == result = "Ok"

\* render returned Ok(()), and every tmux process exited with status 0.
Successful == Completed /\ \A i \in DOMAIN exits : exits[i] = 0

\* The number of panes a window declares: none without a panes key.
PaneCount(w) == IF IsSome(w.panes) THEN Len(Unwrap(w.panes)) ELSE 0

Max(a, b) == IF a >= b THEN a ELSE b

IsPrefix(a, b) == Len(a) <= Len(b) /\ a = SubSeq(b, 1, Len(a))

\* The sequence of section 4.2 of the specification: for panes j.. of a
\* window, a split for every pane but the first, then the pane's command.
RECURSIVE RefPanes(_, _)
RefPanes(ps, j) ==
    IF j > Len(ps) THEN <<>>
    ELSE (IF j > 1 THEN <<SplitWindowCmd>> ELSE <<>>)
         \o (IF IsSome(ps[j]) THEN <<SendKeysCmd(Unwrap(ps[j]))>> ELSE <<>>)
         \o RefPanes(ps, j + 1)

\* ... for a window: its creation, its cmd, its panes, its layout.
RefWindow(w) ==
    <<NewWindowCmd(w)>>
    \o (IF IsSome(w.cmd) THEN <<SendKeysCmd(Unwrap(w.cmd))>> ELSE <<>>)
    \o (IF IsSome(w.panes) THEN RefPanes(Unwrap(w.panes), 1) ELSE <<>>)
    \o <<SelectLayoutCmd(w)>>

RECURSIVE RefWindows(_, _)
RefWindows(ws, i) ==
    IF i > Len(ws) THEN <<>> ELSE RefWindow(ws[i]) \o RefWindows(ws, i + 1)

\* ... for a session: up to the last window's layout, and in full.
RefBuild(s) == <<NewSessionCmd(s)>> \o RefWindows(s.windows, 1)

RefRender(s) == RefBuild(s) \o <<KillWindowCmd(s), MoveWindowCmd, AttachCmd(s)>>

\* ------------------------------------------------------------------- C1

ScenarioOps ==
    <<[cmd |-> "new", d |-> TRUE, s |-> "dev", n |-> "999", c |-> None],
      [cmd |-> "new-window", n |-> Some("edit"), c |-> None],
      [cmd |-> "send-keys", keys |-> "vim", enter |-> TRUE],
      [cmd |-> "select-layout", layout |-> LayoutToString(LayoutDefault)],
      [cmd |-> "new-window", n |-> Some("run"), c |-> None],
      [cmd |-> "send-keys", keys |-> "npm start", enter |-> TRUE],
      [cmd |-> "split-window"],
      [cmd |-> "send-keys", keys |-> "npm test", enter |-> TRUE],
      [cmd |-> "select-layout", layout |-> LayoutToString(LayoutDefault)],
      [cmd |-> "kill-window", t |-> <<"dev", "999">>],
      [cmd |-> "move-window", r |-> TRUE],
      [cmd |-> "attach", t |-> <<"dev", "1">>]>>

\* C1: rendering the dev/edit/run scenario definition to completion spawns
\* exactly the twelve commands of the scenario, in its order: new session
\* dev with window 999, new-window edit, send-keys vim, select-layout
\* default, new-window run, send-keys npm start, split-window, send-keys
\* npm test, select-layout default, kill-window dev:999, move-window -r,
\* attach dev:1.
C1_Scenario ==
    (doc = ScenarioDoc /\ Completed) => Argv = ScenarioOps

C1_Witness ==
    doc = ScenarioDoc /\ Successful /\ Len(ops) = 12

\* ------------------------------------------------------------------- C2

\* The positions of the log that hold a command of the given name spawned
\* while rendering declared window w.
OpsOfWindow(cmd, w) == {i \in OpsOf(cmd) : ops[i].w = w}

\* The sum over the windows i.. of (M_i - 1).
RECURSIVE SumPanesLessOne(_, _)
SumPanesLessOne(ws, i) ==
    IF i > Len(ws) THEN 0
    ELSE (PaneCount(ws[i]) - 1) + SumPanesLessOne(ws, i + 1)

\* The sum over the windows i.. of (M_i - 1), over those with M_i >= 1.
RECURSIVE SumSplits(_, _)
SumSplits(ws, i) ==
    IF i > Len(ws) THEN 0
    ELSE Max(PaneCount(ws[i]) - 1, 0) + SumSplits(ws, i + 1)

\* Every split-window lies after the new-window of the window it was
\* spawned for and before the new-window of the next one, and is not
\* spawned for a first pane.
SplitsPlaced ==
    \A i \in OpsOf("split-window") :
        /\ ops[i].p >= 2
        /\ \E c \in OpsOfWindow("new-window", ops[i].w) : c < i
        /\ \A c \in OpsOfWindow("new-window", ops[i].w + 1) : i < c

\* C2 as stated: a completed render of a definition with N windows, window
\* i declaring M_i panes, has spawned exactly N new-window commands and
\* exactly sum(M_i - 1) split-window commands, each split after its own
\* window's creation and before the next window's.
C2_AsStated ==
    Completed =>
        LET ws == Unwrap(session).windows
        IN  /\ Cardinality(OpsOf("new-window")) = Len(ws)
            /\ Cardinality(OpsOf("split-window")) = SumPanesLessOne(ws, 1)
            /\ SplitsPlaced

\* C2 (amended): a completed render of a definition with N windows, window
\* i declaring M_i panes, has spawned exactly N new-window commands and
\* exactly sum(max(M_i - 1, 0)) split-window commands, max(M_i - 1, 0) of
\* them for window i, none for a first pane, each split after its own
\* window's creation and before the next window's.
C2_Counts ==
    Completed =>
        LET ws == Unwrap(session).windows
        IN  /\ Cardinality(OpsOf("new-window")) = Len(ws)
            /\ Cardinality(OpsOf("split-window")) = SumSplits(ws, 1)
            /\ \A w \in DOMAIN ws :
                  Cardinality(OpsOfWindow("split-window", w)) = Max(PaneCount(ws[w]) - 1, 0)
            /\ SplitsPlaced

C2_Witness ==
    /\ Completed
    /\ Len(Unwrap(session).windows) = 2
    /\ PaneCount(Unwrap(session).windows[1]) = 2
    /\ PaneCount(Unwrap(session).windows[2]) = 0
    /\ Cardinality(OpsOf("split-window")) = 1

\* ------------------------------------------------------------------- C3

\* The canonical string of the layout a window of the document declares,
\* or of the default layout when it declares none.
DeclaredLayout(raw) ==
    IF IsSome(raw.layout) THEN Unwrap(raw.layout) ELSE LayoutToString(LayoutDefault)

\* C3: a completed render has spawned, for every window of the definition,
\* exactly one select-layout, carrying the canonical string of the layout
\* the window declares (or of the default), after the window's new-window,
\* splits and send-keys and before the next new-window or the kill-window.
C3_Layout ==
    Completed =>
        \A w \in DOMAIN doc.windows :
            \E l \in OpsOfWindow("select-layout", w) :
                /\ OpsOfWindow("select-layout", w) = {l}
                /\ ops[l].argv.layout = DeclaredLayout(doc.windows[w])
                /\ \A i \in DOMAIN ops :
                      (ops[i].w = w /\ i # l) => i < l
                /\ \A i \in OpsOfWindow("new-window", w + 1) \cup OpsOf("kill-window") :
                      l < i

\* ------------------------------------------------------------------- C4

\* C4: in every log, the j-th new-window is that of the j-th window of the
\* definition; and among the commands spawned for the panes of one window,
\* those of pane j come before those of pane j + 1, a pane's split comes
\* before its send-keys, and the send-keys carries that pane's command.
C4_Order ==
    IsSome(session) =>
        LET ws == Unwrap(session).windows
        IN  /\ \A a \in OpsOf("new-window") :
                  /\ ops[a].w = Cardinality({b \in OpsOf("new-window") : b <= a})
                  /\ ops[a].argv = NewWindowCmd(ws[ops[a].w])
            /\ \A a \in DOMAIN ops : \A b \in DOMAIN ops :
                  (a < b /\ ops[a].w = ops[b].w /\ ops[a].p >= 1 /\ ops[b].p >= 1) =>
                      /\ ops[a].p <= ops[b].p
                      /\ ops[a].p = ops[b].p =>
                            /\ ops[a].argv.cmd = "split-window"
                            /\ ops[b].argv.cmd = "send-keys"
            /\ \A a \in OpsOf("send-keys") :
                  ops[a].p >= 1 =>
                      Unwrap(ws[ops[a].w].panes)[ops[a].p] = Some(ops[a].argv.keys)

C4_Witness ==
    /\ Completed
    /\ Cardinality(OpsOf("new-window")) = 2
    /\ \E a \in OpsOf("send-keys") : \E b \in OpsOf("send-keys") :
          /\ a < b /\ ops[a].w = 2 /\ ops[b].w = 2
          /\ ops[a].p = 1 /\ ops[b].p = 2
          /\ ops[a].argv.keys # ops[b].argv.keys

\* ------------------------------------------------------------------- C5

\* C5: in every log, every new-window comes after the new-session command
\* that creates the sentinel window 999, which is the first command; and
\* the kill-window comes only after the whole of the creation, pane and
\* layout commands of all N declared windows.
C5_Sentinel ==
    /\ \A i \in OpsOf("new-window") :
          i > 1 /\ ops[1].argv.cmd = "new" /\ ops[1].argv.n = INITIAL_WINDOW
    /\ \A k \in OpsOf("kill-window") :
          /\ SubSeq(Argv, 1, k - 1) = RefBuild(Unwrap(session))
          /\ \A w \in DOMAIN Unwrap(session).windows :
                /\ \E i \in OpsOfWindow("new-window", w) : i < k
                /\ \E i \in OpsOfWindow("select-layout", w) : i < k
                /\ Cardinality({i \in OpsOfWindow("split-window", w) : i < k})
                      = Max(PaneCount(Unwrap(session).windows[w]) - 1, 0)

C5_Witness ==
    /\ OpsOf("kill-window") # {}
    /\ Len(Unwrap(session).windows) = 2
    /\ Cardinality(OpsOf("split-window")) >= 1

\* ------------------------------------------------------------------- C6

\* C6: decoding the canonical string of a layout yields that layout, for
\* each of the five: a window whose layout key holds the string of
\* variant l is deserialized with layout l (main-vertical as MainVertical).
C6_RoundTrip ==
    IsSome(session) =>
        \A w \in DOMAIN doc.windows : \A l \in Layout :
            doc.windows[w].layout = Some(LayoutToString(l)) =>
                Unwrap(session).windows[w].layout = l

\* ------------------------------------------------------------------- C7

\* The five canonical layout strings of the definition file.
CanonicalLayoutStrings ==
    {"tiled", "even-horizontal", "even-vertical", "main-horizontal", "main-vertical"}

\* Some window of the document carries a layout string that is not
\* canonical.
HasUnknownLayout ==
    \E w \in DOMAIN doc.windows :
        /\ IsSome(doc.windows[w].layout)
        /\ Unwrap(doc.windows[w].layout) \notin CanonicalLayoutStrings

\* C7: when any window of the document carries a layout string that is
\* not canonical, main returns the deserialization error and no tmux
\* command is ever spawned, the new-session command included; the tmux
\* server is left as it was.
C7_UnknownLayout ==
    HasUnknownLayout =>
        /\ ops = <<>>
        /\ child = None
        /\ mux = TmuxInit(env)
        /\ session = None
        /\ pc.step # "main" => result = "Err(serde_yaml)"

C7_Witness ==
    /\ result = "Err(serde_yaml)"
    /\ Len(doc.windows) = 2
    /\ doc.windows[1].layout = Some("tiled")
    /\ doc.windows[2].layout = Some("diagonal")
    /\ IsSome(doc.name)

\* ------------------------------------------------------------------- C8

\* A spawn or a wait has failed.
Failed == result \in {"Err(spawn)", "Err(wait)"}

\* C8: when spawning or waiting for the k-th command fails, main returns
\* the error, the log holds exactly the first k commands of the sequence
\* a complete render spawns, the failed command being the last and there
\* once, and from then on nothing more is spawned: no kill-window, no
\* other command.
C8_Abort ==
    /\ [](Failed =>
            /\ pc = Exit
            /\ child = None
            /\ Len(ops) >= 1
            /\ IsPrefix(Argv, RefRender(Unwrap(session)))
            /\ Len(exits) = Len(ops) - 1)
    /\ [][Failed => (Failed' /\ ops' = ops /\ mux' = mux)]_vars

C8_Witness ==
    /\ Failed
    /\ Len(ops) = 5
    /\ ops[5].argv.cmd = "split-window"
    /\ OpsOf("kill-window") = {}

\* ------------------------------------------------------------------- C9

\* C9: when tmux rejects a command (the process runs and exits with a
\* status other than 0), the render aborts there: no command is spawned
\* after the rejected one, and render does not return Ok.
C9_RejectionAborts ==
    \A i \in DOMAIN exits :
        exits[i] # 0 => (Len(ops) = i /\ ~Completed)

\* ------------------------------------------------------------------ C10

\* C10: after a render in which every command succeeded, on a server that
\* had no session of that name and has base-index b, the session holds
\* exactly the N declared windows and no sentinel: the i-th declared
\* window is at index b + i - 1.
C10_Contiguous ==
    (Successful /\ Unwrap(session).name \notin env.existing) =>
        LET name == Unwrap(session).name
            decl == Unwrap(session).windows
        IN  /\ name \in DOMAIN mux.sessions
            /\ Len(mux.sessions[name].windows) = Len(decl)
            /\ \A i \in DOMAIN decl :
                  /\ mux.sessions[name].windows[i].idx = env.base + i - 1
                  /\ mux.sessions[name].windows[i].decl = i
                  /\ mux.sessions[name].windows[i].name
                        = IF IsSome(decl[i].name) THEN Unwrap(decl[i].name)
                          ELSE DefaultWindowName

C10_Witness ==
    /\ Successful
    /\ env.base = 0
    /\ Len(Unwrap(session).windows) = 2
    /\ Len(mux.sessions["dev"].windows) = 2
    /\ mux.sessions["dev"].windows[2].idx = 1

\* ------------------------------------------------------------------ C13

\* The path of the documented lookup order: the file of -f; else, with a
\* session name, <config>/precession/<session_name>.yaml, <config> being
\* $XDG_CONFIG_HOME when that is set and ~/.config when it is not; else
\* ./.session.yaml.  None where that order names no path (no -f, a
\* session name, XDG_CONFIG_HOME unset and no home directory).
LookupPath ==
    IF IsSome(cli.file) THEN cli.file
    ELSE IF IsSome(cli.session_name)
    THEN LET rel == "precession/" \o Unwrap(cli.session_name) \o ".yaml"
         IN  IF IsSome(osenv.XDG_CONFIG_HOME)
             THEN Some(Join(Unwrap(osenv.XDG_CONFIG_HOME), rel))
             ELSE IF IsSome(osenv.home)
             THEN Some(Join(Join(Unwrap(osenv.home), ".config"), rel))
             ELSE None
    ELSE Some("./.session.yaml")

\* C13: the file main reads is the one of the lookup order: the -f file if
\* given, even with a session name; else, with a session name,
\* $XDG_CONFIG_HOME/precession/<session_name>.yaml when XDG_CONFIG_HOME is
\* set and ~/.config/precession/<session_name>.yaml when it is not; else
\* ./.session.yaml.
C13_Lookup ==
    (pc.step # "main" /\ IsSome(LookupPath)) => path = LookupPath

\* ------------------------------------------------------------------ C14

\* C14: when precession start is given an alias, the tmux session is
\* named by the alias and not by the name of the yaml definition: the
\* new-session, kill-window and attach commands carry the alias as the
\* session name.
C14_Alias ==
    IsSome(cli.alias) =>
        /\ \A i \in OpsOf("new") : ops[i].argv.s = Unwrap(cli.alias)
        /\ \A i \in OpsOf("kill-window") \cup OpsOf("attach") :
              ops[i].argv.t[1] = Unwrap(cli.alias)

\* ------------------------------------------------------------------ C11

\* C11: after a render of a definition with at least one window in which
\* every command succeeded, on a server that had no session of that name,
\* the attach has addressed the window at base-index, for base-index 0 and
\* for base-index 1, and that window, the one the client is attached to,
\* is the first declared window.
C11_AttachFirst ==
    (/\ Successful
     /\ Len(Unwrap(session).windows) >= 1
     /\ Unwrap(session).name \notin env.existing) =>
        LET name == Unwrap(session).name
            sess == mux.sessions[name]
        IN  /\ ops[Len(ops)].argv.cmd = "attach"
            /\ StrToNum(ops[Len(ops)].argv.t[2]) = Some(env.base)
            /\ mux.attached = Some(<<name, env.base>>)
            /\ \A k \in AtIndex(sess, env.base) : sess.windows[k].decl = 1

\* ------------------------------------------------------------------ C12

\* The session of the definition exists on the server and holds no window.
EmptySessionExists ==
    /\ Unwrap(session).name \in DOMAIN mux.sessions
    /\ Len(mux.sessions[Unwrap(session).name].windows) = 0

\* C12: a render of a definition without windows, on a server that had no
\* session of that name, spawns exactly new-session (with the sentinel),
\* kill-window, move-window and attach, in that order, and no new-window,
\* split-window, send-keys or select-layout; and while the move-window and
\* the attach are spawned and run, the session of that name exists and
\* holds no window.
C12_Empty ==
    (/\ IsSome(session)
     /\ Len(Unwrap(session).windows) = 0
     /\ Unwrap(session).name \notin env.existing) =>
        LET s == Unwrap(session)
        IN  /\ IsPrefix(Argv, <<NewSessionCmd(s), KillWindowCmd(s),
                                MoveWindowCmd, AttachCmd(s)>>)
            /\ Completed => Len(ops) = 4
            /\ (pc.step \in {"Session::finalize/move-window",
                             "Session::finalize/attach"}
                /\ \A i \in DOMAIN exits : exits[i] = 0) => EmptySessionExists

\* ------------------------------------------------------------------ C15

\* C15: a render changes only the session named in the definition: every
\* other session the server held before the render, the one the program
\* is started in included, keeps its windows, their panes and their
\* indices, so that no new-window, split-window, send-keys, select-layout
\* or move-window of the render has acted on it.
C15_OtherSessions ==
    IsSome(session) =>
        \A n \in env.existing \ {Unwrap(session).name} :
            /\ n \in DOMAIN mux.sessions
            /\ mux.sessions[n].windows = TmuxInit(env).sessions[n].windows

\* ------------------------------------------------------------------ C16

\* The tmux windows, each as <<session, place>>, created by the rendering
\* of declared window w.
WindowsOf(w) ==
    UNION {{<<n, k>> : k \in {i \in DOMAIN mux.sessions[n].windows :
                                  mux.sessions[n].windows[i].decl = w}} :
           n \in DOMAIN mux.sessions}

\* The keys a pane declared with command c has received when it has
\* received exactly that command, once.
KeysOf(c) == IF IsSome(c) THEN <<Unwrap(c)>> ELSE <<>>

\* C16: in a render in which every command succeeded, (a) while the
\* send-keys of the j-th declared pane of a window is spawned and run, the
\* tmux window created for that window has exactly j panes, the j-th being
\* the active one, and (b) at the end the tmux window of every declared
\* window with panes and without cmd has exactly the declared panes, the
\* j-th having received the j-th declared command exactly once, and
\* nothing when it declares none.
C16_PaneCommands ==
    (IsSome(session) /\ \A i \in DOMAIN exits : exits[i] = 0) =>
        /\ (IsSome(child) /\ Unwrap(child).argv.cmd = "send-keys"
                /\ Unwrap(child).p >= 1) =>
              \E nk \in WindowsOf(Unwrap(child).w) :
                  LET tw == mux.sessions[nk[1]].windows[nk[2]]
                  IN  /\ WindowsOf(Unwrap(child).w) = {nk}
                      /\ Len(tw.panes) = Unwrap(child).p
                      /\ tw.active = Unwrap(child).p
        /\ Completed =>
              \A w \in DOMAIN Unwrap(session).windows :
                  LET dw == Unwrap(session).windows[w]
                  IN  (~IsSome(dw.cmd) /\ PaneCount(dw) >= 1) =>
                          \E nk \in WindowsOf(w) :
                              LET tw == mux.sessions[nk[1]].windows[nk[2]]
                              IN  /\ WindowsOf(w) = {nk}
                                  /\ Len(tw.panes) = PaneCount(dw)
                                  /\ \A j \in DOMAIN tw.panes :
                                        tw.panes[j].keys = KeysOf(Unwrap(dw.panes)[j])

C16_Witness ==
    /\ Successful
    /\ \E w \in DOMAIN Unwrap(session).windows :
          LET dw == Unwrap(session).windows[w]
          IN  /\ dw.cmd = None
              /\ dw.panes = Some(<<Some("npm start"), None>>)
              /\ \E nk \in WindowsOf(w) :
                    /\ mux.sessions[nk[1]].windows[nk[2]].panes[1].keys = <<"npm start">>
                    /\ mux.sessions[nk[1]].windows[nk[2]].panes[2].keys = <<>>

\* ------------------------------------------------------------------ C17

\* Some window of the document declares both a cmd and at least one pane.
HasCmdAndPanes ==
    \E w \in DOMAIN doc.windows :
        /\ IsSome(doc.windows[w].cmd)
        /\ IsSome(doc.windows[w].panes)
        /\ Len(Unwrap(doc.windows[w].panes)) >= 1

\* C17: a definition in which some window declares both a cmd and panes
\* is refused: main returns an error without spawning any command; and in
\* no log are there both the send-keys of a window's cmd and a send-keys
\* of one of that window's panes.
C17_CmdAndPanes ==
    /\ HasCmdAndPanes =>
          /\ ops = <<>>
          /\ session = None
          /\ pc.step # "main" => result = "Err(serde_yaml)"
    /\ \A a \in OpsOf("send-keys") : \A b \in OpsOf("send-keys") :
          ~(ops[a].w = ops[b].w /\ ops[a].p = 0 /\ ops[b].p >= 1)

\* ------------------------------------------------------------------ C18

\* The kill-window has been spawned and has run.
KillDone == \E k \in OpsOf("kill-window") : Len(exits) >= k

\* The session of the definition still holds the sentinel: a window that
\* no declared window's rendering created.
SentinelThere ==
    /\ Unwrap(session).name \in DOMAIN mux.sessions
    /\ \E k \in DOMAIN mux.sessions[Unwrap(session).name].windows :
          mux.sessions[Unwrap(session).name].windows[k].decl = 0

\* C18: once the kill-window of finalize has run, on a server that had no
\* session of that name, the sentinel is gone and the window of every
\* declared window is still there, whatever the definition: also when it
\* declares a window named 999, and when its windows reach index 999.
C18_KillsSentinel ==
    (/\ IsSome(session)
     /\ Unwrap(session).name \notin env.existing
     /\ KillDone) =>
        /\ ~SentinelThere
        /\ \A w \in DOMAIN Unwrap(session).windows : WindowsOf(w) # {}

\* ------------------------------------------------------------------ C19

\* C19: the commands are spawned strictly one at a time.  A command is
\* spawned only when no process is outstanding and every command spawned
\* before has been waited for; while a process is outstanding main has not
\* returned; and the only step the program takes while a process is
\* outstanding is the end of the wait for it, so that when the process
\* never exits nothing more is spawned and main never returns.
C19_OneAtATime ==
    /\ [](IsSome(child) =>
            /\ result = "running"
            /\ pc.step \notin {"main", "exit"}
            /\ Unwrap(child) = ops[Len(ops)]
            /\ Len(exits) = Len(ops) - 1)
    /\ [][ops' # ops =>
            /\ child = None
            /\ Len(exits) = Len(ops)
            /\ Len(ops') = Len(ops) + 1
            /\ SubSeq(ops', 1, Len(ops)) = ops]_vars
    /\ [][IsSome(child) =>
            /\ child' = None
            /\ ops' = ops]_vars

C19_Witness ==
    /\ IsSome(child)
    /\ Len(ops) = 5
    /\ Len(exits) = 4
    /\ result = "running"

\* ------------------------------------------------------------------ C20

\* C20: the last three commands of a render in which every command
\* succeeded are kill-window of the sentinel target, move-window -r and
\* attach, in that order; and in every log a move-window comes directly
\* after a kill-window that has run, an attach directly after a
\* move-window that has run, and nothing after an attach.
C20_FinalOrder ==
    /\ Successful =>
          /\ Len(ops) >= 4
          /\ SubSeq(Argv, Len(ops) - 2, Len(ops))
                = <<KillWindowCmd(Unwrap(session)), MoveWindowCmd,
                    AttachCmd(Unwrap(session))>>
    /\ \A m \in OpsOf("move-window") :
          /\ m - 1 \in OpsOf("kill-window")
          /\ Len(exits) >= m - 1
    /\ \A a \in OpsOf("attach") :
          /\ a - 1 \in OpsOf("move-window")
          /\ Len(exits) >= a - 1
          /\ a = Len(ops)
    /\ Cardinality(OpsOf("kill-window")) <= 1

C20_Witness ==
    /\ Successful
    /\ Len(Unwrap(session).windows) = 2
    /\ Len(ops) >= 8
    /\ ops[Len(ops) - 2].argv.cmd = "kill-window"
    /\ ops[Len(ops)].argv.cmd = "attach"

====
